---- MODULE Spec2Model ----
(***************************************************************************)
(* A model of rusty-machine's feed-forward network (learning/nnet.rs) and  *)
(* logistic regressor (learning/logistic_reg.rs).                          *)
(*                                                                         *)
(* Numbers.  The code computes in f64.  The network is instantiated with   *)
(* MSECriterion (linear activation, mean squared error), whose arithmetic  *)
(* is +, -, * and one division by the batch size: on integer data it is    *)
(* exact, so matrices hold integers and a quotient is kept as the pair     *)
(* <<numerator, denominator>>.  The logistic regressor computes with the   *)
(* sigmoid, which has no exact model: its optimised parameters are kept as *)
(* the term Optimized(start, inputs, targets).                             *)
(*                                                                         *)
(* Indices.  Rust indexes from 0 and TLA+ sequences from 1: layer indices, *)
(* rows, columns and flat offsets are 0-based as in the code, and a read   *)
(* of position i of a Vec is  v[i + 1].                                    *)
(*                                                                         *)
(* Panics.  A panic that unwinds out of an operation is the outcome        *)
(* "panic" of that operation; inside a computation a panicked matrix       *)
(* expression is the value Bad(why), which every later matrix operation    *)
(* passes on, as unwinding skips the code that follows.                    *)
(***************************************************************************)
EXTENDS Integers, Sequences, FiniteSets, TLC

\* ------------------------------------------------------------------ bounds
\* Longest topology explored (number of layer sizes).
MaxLayers == 3
\* Largest layer size, and largest column count of an input or target batch.
MaxSize == 2
\* Largest number of rows of an input or target batch.
MaxRows == 2
\* Successful train calls explored per model.
MaxTrains == 2
\* Epochs the optimizers run (their `iters`).
Iters == 1
\* Largest parameter magnitude of the training runs explored.
MaxAbs == 6

\* Seeds of the data the model draws: random weights, input and target batches.
Seeds == {0, 1}

\* ----------------------------------------------------------- sequence help
RECURSIVE SumSeq(_)
SumSeq(s) == IF s = <<>> THEN 0 ELSE Head(s) + SumSeq(Tail(s))

Abs(x) == IF x < 0 THEN -x ELSE x

\* The k-th number (k >= 1) of the stream a seed stands for: -1, 0 or 1.
Draw(seed, k) == ((k * (seed + 1) + seed) % 3) - 1

\* n numbers of the stream of `seed`.
GenVec(n, seed) == [i \in 1..n |-> Draw(seed, i)]

\* -------------------------------------------------------- dense matrices
\* linalg::matrix::Matrix<f64>: row-major data of rows * cols entries.
Bad(why) == [rows |-> 0, cols |-> 0, data |-> <<>>, err |-> why]

IsBad(m) == m.err # ""

\* Matrix::new(rows, cols, data): the data must fill the shape.
MatNew(rows, cols, data) ==
    IF Len(data) # rows * cols THEN Bad("Matrix::new: data does not match shape")
    ELSE [rows |-> rows, cols |-> cols, data |-> data, err |-> ""]

\* Entry (r, c), 0-based, of a row-major matrix.
At(m, r, c) == m.data[r * m.cols + c + 1]

\* The row and the column, 0-based, of the i-th entry of row-major data.
RowOf(i, cols) == (i - 1) \div cols

ColOf(i, cols) == (i - 1) % cols

\* Matrix::ones(rows, cols)
MatOnes(rows, cols) == [rows |-> rows, cols |-> cols, err |-> "",
                        data |-> [i \in 1..(rows * cols) |-> 1]]

\* a.hcat(b): b's columns to the right of a's; the row counts must agree.
HCat(a, b) ==
    IF IsBad(a) THEN a ELSE IF IsBad(b) THEN b
    ELSE IF a.rows # b.rows THEN Bad("hcat: row counts differ")
    ELSE LET E(r, c) == IF c < a.cols THEN At(a, r, c) ELSE At(b, r, c - a.cols)
         IN  [rows |-> a.rows, cols |-> a.cols + b.cols, err |-> "",
              data |-> [i \in 1..((a.rows) * (a.cols + b.cols)) |->
                          E(RowOf(i, a.cols + b.cols), ColOf(i, a.cols + b.cols))]]

\* a.transpose()
Transpose(a) ==
    IF IsBad(a) THEN a
    ELSE LET E(r, c) == At(a, c, r) IN [rows |-> a.cols, cols |-> a.rows, err |-> "",
              data |-> [i \in 1..((a.cols) * (a.rows)) |->
                          E(RowOf(i, a.rows), ColOf(i, a.rows))]]

RECURSIVE DotFrom(_, _, _, _, _)
\* sum over k in j..a.cols-1 of a[r, k] * b[k, c]
DotFrom(a, b, r, c, j) ==
    IF j >= a.cols THEN 0
    ELSE At(a, r, j) * At(b, j, c) + DotFrom(a, b, r, c, j + 1)

\* a * b: the matrix product; a's columns must be b's rows.
MatMul(a, b) ==
    IF IsBad(a) THEN a ELSE IF IsBad(b) THEN b
    ELSE IF a.cols # b.rows THEN Bad("mul: dimensions do not agree")
    ELSE LET E(r, c) == DotFrom(a, b, r, c, 0) IN [rows |-> a.rows, cols |-> b.cols, err |-> "",
              data |-> [i \in 1..((a.rows) * (b.cols)) |->
                          E(RowOf(i, b.cols), ColOf(i, b.cols))]]

\* a.elemul(b): entry-wise product of matrices of one shape.
EleMul(a, b) ==
    IF IsBad(a) THEN a ELSE IF IsBad(b) THEN b
    ELSE IF a.rows # b.rows \/ a.cols # b.cols THEN Bad("elemul: dimensions do not agree")
    ELSE [a EXCEPT !.data = [i \in 1..Len(a.data) |-> a.data[i] * b.data[i]]]

\* a - b: entry-wise difference of matrices of one shape.
MatSub(a, b) ==
    IF IsBad(a) THEN a ELSE IF IsBad(b) THEN b
    ELSE IF a.rows # b.rows \/ a.cols # b.cols THEN Bad("sub: dimensions do not agree")
    ELSE [a EXCEPT !.data = [i \in 1..Len(a.data) |-> a.data[i] - b.data[i]]]

\* a.select_cols(cols): the listed columns (0-based), in the order listed.
SelectCols(a, cols) ==
    IF IsBad(a) THEN a
    ELSE IF \E k \in 1..Len(cols) : cols[k] >= a.cols THEN Bad("select_cols: index out of bounds")
    ELSE LET E(r, c) == At(a, r, cols[c + 1]) IN [rows |-> a.rows, cols |-> Len(cols), err |-> "",
              data |-> [i \in 1..((a.rows) * (Len(cols))) |->
                          E(RowOf(i, Len(cols)), ColOf(i, Len(cols)))]]

\* a.select_rows(rows): the listed rows (0-based), in the order listed.
SelectRows(a, rows) ==
    IF IsBad(a) THEN a
    ELSE IF \E k \in 1..Len(rows) : rows[k] >= a.rows THEN Bad("select_rows: index out of bounds")
    ELSE LET E(r, c) == At(a, rows[r + 1], c) IN [rows |-> Len(rows), cols |-> a.cols, err |-> "",
              data |-> [i \in 1..((Len(rows)) * (a.cols)) |->
                          E(RowOf(i, a.cols), ColOf(i, a.cols))]]

\* a / n for a scalar n: every entry becomes the quotient <<entry, n>>.
MatDivScalar(a, n) ==
    IF IsBad(a) THEN a
    ELSE [a EXCEPT !.data = [i \in 1..Len(a.data) |-> <<a.data[i], n>>]]

\* a.into_vec(): the row-major data.
IntoVec(a) == a.data

\* A rows x cols batch drawn from the stream of `seed`.
GenMat(rows, cols, seed) == MatNew(rows, cols, GenVec(rows * cols, seed))

\* ------------------------------------------------------------- criterion
\* activ_fn::Linear::func
LinearFunc(x) == x

\* activ_fn::Linear::func_grad
LinearFuncGrad(x) == 1

\* Criterion::activate for MSECriterion (ActFunc = Linear):
\* mat.apply(Linear::func), the function on every entry.
Activate(mat) ==
    IF IsBad(mat) THEN mat
    ELSE [mat EXCEPT !.data = [i \in 1..Len(mat.data) |-> LinearFunc(mat.data[i])]]

\* Criterion::grad_activ for MSECriterion: mat.apply(Linear::func_grad).
GradActiv(mat) ==
    IF IsBad(mat) THEN mat
    ELSE [mat EXCEPT !.data = [i \in 1..Len(mat.data) |-> LinearFuncGrad(mat.data[i])]]

\* cost_fn::MeanSqError::grad_cost(outputs, targets) = outputs - targets.
MeanSqErrorGradCost(outputs, targets) == MatSub(outputs, targets)

\* cost_fn::MeanSqError::cost(outputs, targets) = sum((o - t)^2) / (2 * rows),
\* as the quotient <<numerator, denominator>>, from diff = outputs - targets.
MeanSqErrorCostOf(diff) ==
    IF IsBad(diff) THEN <<0, 0>>
    ELSE <<SumSeq(EleMul(diff, diff).data), 2 * diff.rows>>

MeanSqErrorCost(outputs, targets) == MeanSqErrorCostOf(MatSub(outputs, targets))

\* Criterion::cost_grad for MSECriterion (Cost = MeanSqError).
CostGrad(outputs, targets) == MeanSqErrorGradCost(outputs, targets)

\* Criterion::cost for MSECriterion.
Cost(outputs, targets) == MeanSqErrorCost(outputs, targets)

\* ------------------------------------------------------------ NeuralNet
\* The parameters of the weights between layer l and layer l + 1:
\* (layer_sizes[l] + 1) * layer_sizes[l + 1].
LayerCapacity(ls, l) == (ls[l + 1] + 1) * ls[l + 2]

RECURSIVE SumCapacities(_, _, _)
\* for l in from..to-1 { acc += (layer_sizes[l] + 1) * layer_sizes[l + 1] }
SumCapacities(ls, from, to) ==
    IF from >= to THEN 0
    ELSE LayerCapacity(ls, from) + SumCapacities(ls, from + 1, to)

\* get_layer_weights: full_size, the sum over l in 0..len-1.
FullSize(ls) == SumCapacities(ls, 0, Len(ls) - 1)

\* A faulty start: the sum over l in 0..=idx, one layer too far.
LayerStartInclusive(ls, idx) == SumCapacities(ls, 0, idx + 1)

\* get_layer_weights: start, the sum over l in 0..idx.
LayerStart(ls, idx) == SumCapacities(ls, 0, idx)

\* A faulty initialize_weights: no weights for the bias row.
InitializeWeightsNoBias(l_in, l_out, seed, drawn) ==
    [i \in 1..((l_in - 1) * l_out) |-> Draw(seed, drawn + i)]

\* initialize_weights(l_in, l_out): l_in * l_out draws of the generator, the
\* first of them draw number `drawn + 1` of the stream.  (The code scales a
\* draw u of [0, 1) to u * 2 * eps - eps, eps = sqrt(6 / (l_in + l_out)); the
\* model keeps the integer the stream gives.)
InitializeWeights(l_in, l_out, seed, drawn) ==
    [i \in 1..(l_in * l_out) |-> Draw(seed, drawn + i)]

RECURSIVE CreateWeightsFrom(_, _, _, _)
\* create_weights: the loop over l in 0..total_layers-1, appending each layer.
CreateWeightsFrom(ls, l, seed, layers) ==
    IF l >= Len(ls) - 1 THEN layers
    ELSE CreateWeightsFrom(ls, l + 1, seed,
             layers \o InitializeWeights(ls[l + 1] + 1, ls[l + 2], seed, Len(layers)))

\* create_weights(layer_sizes).  total_layers - 1 is a usize subtraction: on an
\* empty slice it panics when the build checks overflow and wraps otherwise,
\* and take(usize::MAX) of the empty iterator then yields nothing.
CreateWeights(ls, seed, overflow_checks) ==
    IF Len(ls) = 0 /\ overflow_checks
    THEN [err |-> "attempt to subtract with overflow", weights |-> <<>>]
    ELSE [err |-> "", weights |-> CreateWeightsFrom(ls, 0, seed, <<>>)]

\* The value of a read past the end of the slice: undefined behaviour.
Undefined == "undefined"

\* *weights.get_unchecked(i)
GetUnchecked(weights, i) ==
    IF 0 <= i /\ i < Len(weights) THEN weights[i + 1] ELSE Undefined

\* get_layer_weights: the indices i in start..start + capacity it reads.
LayerReads(ls, idx) ==
    [k \in 1..LayerCapacity(ls, idx) |-> LayerStart(ls, idx) + k - 1]

\* get_layer_weights(weights, idx).  On an empty layer_sizes the first
\* layer_sizes[l] of the size loop is out of bounds (the build that checks
\* overflow panics one line earlier, at len() - 1).
GetLayerWeights(ls, weights, idx) ==
    IF Len(ls) = 0 THEN Bad("layer_sizes: index out of bounds")
    ELSE IF ~(idx < Len(ls) - 1) THEN Bad("assertion failed: idx < self.layer_sizes.len() - 1")
    ELSE IF FullSize(ls) # Len(weights) THEN Bad("assertion failed: full_size == weights.len()")
    ELSE LET reads == LayerReads(ls, idx)
         IN  MatNew(ls[idx + 1] + 1, ls[idx + 2],
                    [k \in 1..Len(reads) |-> GetUnchecked(weights, reads[k])])

\* A matrix no call has produced.
NoMatrix == Bad("none")

\* Matrix::ones(a.rows(), 1).hcat(&a): the bias column before a's columns.
PrependOnes(a) == HCat(MatOnes(a.rows, 1), a)

RECURSIVE ForwardCache(_, _, _, _, _, _)
RECURSIVE ForwardNext(_, _, _, _, _, _)
\* compute_grad, forward propagation.  z is the pre-activation of layer l - 1:
\* it is cached in forward_weights; for l in 1..len-1 it is activated, given
\* the ones column and cached in activations (ForwardNext multiplies by layer
\* l's weights); after the loop the activated z is the last activation.
ForwardCache(ls, weights, l, z, activations, forward_weights) ==
    IF l >= Len(ls) - 1
    THEN [activations |-> Append(activations, Activate(z)),
          forward_weights |-> Append(forward_weights, z)]
    ELSE ForwardNext(ls, weights, l, PrependOnes(Activate(z)), activations,
                     Append(forward_weights, z))

\* compute_grad, forward propagation: activations.push(a);
\* z = a * get_layer_weights(weights, l).
ForwardNext(ls, weights, l, a, activations, forward_weights) ==
    ForwardCache(ls, weights, l + 1, MatMul(a, GetLayerWeights(ls, weights, l)),
                 Append(activations, a), forward_weights)

\* (1..delta.cols()).collect(): the columns after the bias column.
NonOneRows(delta) == [k \in 1..(delta.cols - 1) |-> k]

\* A faulty strip: the bias column is kept.
StripBiasKept(delta) == delta

\* compute_grad: delta = delta.select_cols(non_one_rows)
StripBias(delta) == SelectCols(delta, NonOneRows(delta))

\* compute_grad: the error before layer l from the error after it,
\* (delta * weights_l^T).elemul(grad_activ(ones.hcat(forward_weights[l - 1]))),
\* with the bias column stripped.
PreviousDelta(ls, weights, l, delta, forward_weights) ==
    StripBias(EleMul(MatMul(delta, Transpose(GetLayerWeights(ls, weights, l))),
                     GradActiv(PrependOnes(forward_weights[l]))))

RECURSIVE BackwardDeltas(_, _, _, _, _, _)
\* compute_grad, backward propagation: deltas.push(delta), then for l in
\* (1..len-1).rev() the error of the layer before.
BackwardDeltas(ls, weights, l, delta, deltas, forward_weights) ==
    IF l < 1 THEN Append(deltas, delta)
    ELSE BackwardDeltas(ls, weights, l - 1,
                        PreviousDelta(ls, weights, l, delta, forward_weights),
                        Append(deltas, delta), forward_weights)

\* compute_grad: the output error, cost_grad(activations[len - 1], targets)
\* .elemul(grad_activ(forward_weights[len - 2])).
OutputDelta(ls, activations, forward_weights, targets) ==
    EleMul(CostGrad(activations[Len(ls)], targets),
           GradActiv(forward_weights[Len(ls) - 1]))

\* compute_grad: the gradient of layer l, deltas[len - 2 - l]^T * activations[l].
GradBlock(ls, deltas, activations, l) ==
    MatMul(Transpose(deltas[Len(ls) - 2 - l + 1]), activations[l + 1])

RECURSIVE FlattenBlocks(_, _)
\* compute_grad: for g in grad { gradients.append(g.into_vec()) }
FlattenBlocks(grad, k) ==
    IF k > Len(grad) THEN <<>> ELSE IntoVec(grad[k]) \o FlattenBlocks(grad, k + 1)

\* The first panic among a sequence of matrix values, "" when there is none.
FirstErr(ms) ==
    IF \E k \in 1..Len(ms) : IsBad(ms[k])
    THEN ms[CHOOSE k \in 1..Len(ms) : IsBad(ms[k]) /\ \A j \in 1..(k - 1) : ~IsBad(ms[j])].err
    ELSE ""

\* What compute_grad yields when it panics with `why`.
GradPanic(why) ==
    [err |-> why, cost |-> <<0, 0>>, gradients |-> <<>>,
     activations |-> <<>>, deltas |-> <<>>, grad |-> <<>>]

\* compute_grad: the (cost, gradients) it returns, with the caches it built.
ComputeGradReturn(targets, activations, deltas, grad, why) ==
    IF why # "" THEN GradPanic(why)
    ELSE [err |-> "", cost |-> Cost(activations[Len(activations)], targets),
          gradients |-> FlattenBlocks(grad, 1),
          activations |-> activations, deltas |-> deltas, grad |-> grad]

\* compute_grad: the per-layer gradients, each divided by inputs.rows().
ComputeGradBlocks(ls, inputs, targets, activations, deltas, grad) ==
    ComputeGradReturn(targets, activations, deltas, grad, FirstErr(deltas \o grad))

\* compute_grad: from the deltas to the gradient of every layer l in 0..len-1.
ComputeGradAssemble(ls, inputs, targets, activations, deltas) ==
    ComputeGradBlocks(ls, inputs, targets, activations, deltas,
        [l \in 1..(Len(ls) - 1) |->
            MatDivScalar(GradBlock(ls, deltas, activations, l - 1), inputs.rows)])

\* compute_grad: the backward pass over the forward caches.
ComputeGradBackward(ls, weights, inputs, targets, fwd) ==
    ComputeGradAssemble(ls, inputs, targets, fwd.activations,
        BackwardDeltas(ls, weights, Len(ls) - 2,
                       OutputDelta(ls, fwd.activations, fwd.forward_weights, targets),
                       <<>>, fwd.forward_weights))

\* compute_grad: the forward pass from net_data and the first layer's weights.
ComputeGradForward(ls, weights, inputs, targets, net_data, w0) ==
    IF IsBad(w0) THEN GradPanic(w0.err)
    ELSE ComputeGradBackward(ls, weights, inputs, targets,
             ForwardCache(ls, weights, 1, MatMul(net_data, w0), <<net_data>>, <<>>))

\* NeuralNet::compute_grad(weights, inputs, targets) -> (cost, gradients)
ComputeGrad(ls, weights, inputs, targets) ==
    IF Len(ls) = 0 THEN GradPanic("layer_sizes: index out of bounds")
    ELSE IF inputs.cols # ls[1]
    THEN GradPanic("assertion failed: inputs.cols() == layer_sizes[0]")
    ELSE ComputeGradForward(ls, weights, inputs, targets, PrependOnes(inputs),
                            GetLayerWeights(ls, weights, 0))

RECURSIVE ForwardLayers(_, _, _, _)
\* forward_prop: for l in 1..len-1, prepend the ones column to a, multiply by
\* layer l's weights, activate.
ForwardLayers(ls, weights, l, a) ==
    IF l >= Len(ls) - 1 THEN a
    ELSE ForwardLayers(ls, weights, l + 1,
             Activate(MatMul(PrependOnes(a), GetLayerWeights(ls, weights, l))))

\* A faulty forward_prop: the inputs are multiplied without their ones column.
ForwardPropNoBias(ls, weights, inputs) ==
    IF Len(ls) = 0 THEN Bad("layer_sizes: index out of bounds")
    ELSE IF inputs.cols # ls[1]
    THEN Bad("assertion failed: inputs.cols() == layer_sizes[0]")
    ELSE ForwardLayers(ls, weights, 1,
             Activate(MatMul(inputs, GetLayerWeights(ls, weights, 0))))

\* NeuralNet::forward_prop(inputs), on the stored weights (get_net_weights).
ForwardProp(ls, weights, inputs) ==
    IF Len(ls) = 0 THEN Bad("layer_sizes: index out of bounds")
    ELSE IF inputs.cols # ls[1]
    THEN Bad("assertion failed: inputs.cols() == layer_sizes[0]")
    ELSE ForwardLayers(ls, weights, 1,
             Activate(MatMul(PrependOnes(inputs), GetLayerWeights(ls, weights, 0))))

\* ----------------------------------------------------------- optimizers
\* One descent update, params[i] -= rate * gradients[i], at learning rate 1; the
\* two vectors must have one length.  A gradient entry is the quotient
\* <<sum, batch rows>>.
DescentStep(params, gradients) ==
    IF Len(params) # Len(gradients)
    THEN [err |-> "vector sub: sizes do not agree", params |-> params]
    ELSE [err |-> "",
          params |-> [i \in 1..Len(params) |->
                         params[i] - (gradients[i][1] \div gradients[i][2])]]

\* What optimize yields: a panic or the parameters, and the gradients computed
\* on the way.
SgdEnd(why, params, computed) ==
    [err |-> why, params |-> params, computed |-> computed]

RECURSIVE SgdRun(_, _, _, _, _, _, _)
RECURSIVE SgdBatch(_, _, _, _, _, _, _, _, _)
RECURSIVE SgdUpdate(_, _, _, _, _, _, _, _)
RECURSIVE SgdAdvance(_, _, _, _, _, _, _)
\* StochasticGD::optimize: per epoch, the rows in shuffled order, one update per
\* minibatch (of one row), on that row of the inputs and of the targets.
\* order: the row visited at each step of the run, all epochs in a row.
SgdRun(ls, params, inputs, targets, order, k, computed) ==
    IF k > Len(order) THEN SgdEnd("", params, computed)
    ELSE SgdBatch(ls, params, inputs, targets, order, k, computed,
                  SelectRows(inputs, <<order[k]>>), SelectRows(targets, <<order[k]>>))

\* StochasticGD::optimize: compute_grad on the minibatch.
SgdBatch(ls, params, inputs, targets, order, k, computed, batch_in, batch_out) ==
    IF IsBad(batch_out) THEN SgdEnd(batch_out.err, params, computed)
    ELSE SgdUpdate(ls, params, inputs, targets, order, k, computed,
                   ComputeGrad(ls, params, batch_in, batch_out))

\* StochasticGD::optimize: the update by the minibatch's gradient.
SgdUpdate(ls, params, inputs, targets, order, k, computed, cg) ==
    IF cg.err # "" THEN SgdEnd(cg.err, params, computed)
    ELSE SgdAdvance(ls, inputs, targets, order, k, computed + 1,
                    DescentStep(params, cg.gradients))

\* StochasticGD::optimize: on to the next minibatch.
SgdAdvance(ls, inputs, targets, order, k, computed, stp) ==
    IF stp.err # "" THEN SgdEnd(stp.err, stp.params, computed)
    ELSE SgdRun(ls, stp.params, inputs, targets, order, k + 1, computed)

\* StochasticGD::optimize(model, start, inputs, targets)
SgdOptimize(ls, start, inputs, targets, order) ==
    SgdRun(ls, start, inputs, targets, order, 1, 0)

\* Whether every parameter lies within the magnitude explored.
WithinModel(params) == \A i \in 1..Len(params) : Abs(params[i]) <= MaxAbs

RECURSIVE SgdWithin(_, _, _, _, _, _)
RECURSIVE SgdWithinAfter(_, _, _, _, _, _)
\* Whether the run of optimize from params over the rows order[k..] keeps
\* every parameter vector it passes through within the magnitude explored: the
\* runs the exploration draws are those that do (a run that panics stores
\* nothing).
SgdWithin(ls, params, inputs, targets, order, k) ==
    IF k > Len(order) THEN TRUE
    ELSE SgdWithinAfter(ls, inputs, targets, order, k,
                        SgdRun(ls, params, inputs, targets, <<order[k]>>, 1, 0))

\* The same, the update on row order[k] having ended as step.
SgdWithinAfter(ls, inputs, targets, order, k, step) ==
    IF step.err # "" THEN TRUE
    ELSE IF ~WithinModel(step.params) THEN FALSE
    ELSE SgdWithin(ls, step.params, inputs, targets, order, k + 1)

\* The shuffled row orders of a batch of n rows.
Shuffles(n) == {p \in [1..n -> 0..(n - 1)] : \A i, j \in 1..n : p[i] = p[j] => i = j}

RECURSIVE Epochs(_, _)
\* The visiting orders of a run of e epochs over n rows: one shuffle per epoch.
Epochs(n, e) ==
    IF e = 0 THEN {<<>>}
    ELSE {p \o q : p \in Shuffles(n), q \in Epochs(n, e - 1)}

\* A faulty train: the optimizer is started from zeros, not from the weights.
NNTrainStartCold(weights) == [i \in 1..Len(weights) |-> 0]

\* NeuralNet::train: the vector the optimizer is started from.
NNTrainStart(weights) == weights

\* NeuralNet::train: what the model stores when optimize ended as `run`
\* (a panic unwinds before the assignment).
NNTrainStore(weights, run) == IF run.err # "" THEN weights ELSE run.params

\* ---------------------------------------------------- LogisticRegressor
\* Option<Vector<f64>>
None == [some |-> FALSE, v |-> <<>>]

Some(v) == [some |-> TRUE, v |-> v]

\* The 0.5 of vec![0.5; n], as the quotient 1 / 2.
Half == <<1, 2>>

\* LogisticRegressor::train: initial_params = vec![0.5; full_inputs.cols()]
LRTrainStart(parameters, full_inputs) == [i \in 1..full_inputs.cols |-> Half]

\* LogisticRegressor::compute_grad(params, inputs, targets): inputs * params
\* needs one parameter per column, outputs - targets one target per row.  The
\* gradient inputs^T * (outputs - targets) / rows has one entry per column;
\* its entries pass through the sigmoid and are kept as terms.
LRComputeGrad(params, inputs, targets) ==
    IF inputs.cols # Len(params)
    THEN [err |-> "mul: dimensions do not agree", gradients |-> <<>>]
    ELSE IF inputs.rows # Len(targets)
    THEN [err |-> "vector sub: sizes do not agree", gradients |-> <<>>]
    ELSE [err |-> "",
          gradients |-> [c \in 1..inputs.cols |->
                            [grad |-> c - 1, params |-> params,
                             inputs |-> inputs.data, targets |-> targets]]]

\* The parameters batch gradient descent ends with, as terms of what it was
\* started from and run on (it is deterministic, and draws nothing).
Optimized(start, inputs, targets) ==
    [i \in 1..Len(start) |->
        [opt |-> i - 1, start |-> start, inputs |-> inputs.data, targets |-> targets]]

\* GradientDesc::optimize: the outcome, given the first gradient cg.
GdOptimizeFrom(start, inputs, targets, cg) ==
    IF Iters = 0 THEN [err |-> "", params |-> start]
    ELSE IF cg.err # "" THEN [err |-> cg.err, params |-> start]
    ELSE IF Len(cg.gradients) # Len(start)
    THEN [err |-> "vector sub: sizes do not agree", params |-> start]
    ELSE [err |-> "", params |-> Optimized(start, inputs, targets)]

\* GradientDesc::optimize(model, start, inputs, targets): a fixed number of
\* iterations, each on the full batch; the first gradient decides whether the
\* shapes fit, and every later one has the same shapes.
GdOptimize(start, inputs, targets) ==
    GdOptimizeFrom(start, inputs, targets, LRComputeGrad(start, inputs, targets))

\* A faulty train: the optimizer's result is dropped.
LRTrainStoreNothing(parameters, run) == parameters

\* LogisticRegressor::train: what the model stores when optimize ended as `run`.
LRTrainStore(parameters, run) ==
    IF run.err # "" THEN parameters ELSE Some(run.params)

\* LogisticRegressor::parameters()
LRParametersOf(parameters) ==
    IF ~parameters.some THEN None ELSE Some(parameters.v)

\* LogisticRegressor::predict, the Some branch: (full_inputs * v).apply(sigmoid);
\* the entries pass through the sigmoid and are kept as terms.
LRPredictSome(v, full_inputs) ==
    IF full_inputs.cols # Len(v)
    THEN [err |-> "mul: dimensions do not agree", value |-> <<>>]
    ELSE [err |-> "",
          value |-> [r \in 1..full_inputs.rows |->
                        [sigmoid |-> r - 1, inputs |-> full_inputs.data]]]

\* LogisticRegressor::predict(inputs)
LRPredictOf(parameters, inputs) ==
    IF parameters.some THEN LRPredictSome(parameters.v, PrependOnes(inputs))
    ELSE [err |-> "Model has not been trained.", value |-> <<>>]

\* ------------------------------------------------------------- the state
VARIABLES
    model,          \* which of the two models this run constructs
    built,          \* whether the constructor returned
    layer_sizes,    \* NeuralNet.layer_sizes
    weights,        \* NeuralNet.weights
    parameters,     \* LogisticRegressor.parameters
    trains,         \* train calls that returned
    last,           \* the last call: its arguments and its outcome
    pc              \* "ready", or "done" once a call left the model as it was

vars == <<model, built, layer_sizes, weights, parameters, trains, last, pc>>

RECURSIVE SeqsUpTo(_, _)
\* The sequences over S of length at most n.
SeqsUpTo(S, n) ==
    IF n = 0 THEN {<<>>}
    ELSE SeqsUpTo(S, n - 1) \cup {Append(q, x) : q \in SeqsUpTo(S, n - 1), x \in S}

\* The layer_sizes slices a caller may pass: well-formed or not.
Topologies == SeqsUpTo(0..MaxSize, MaxLayers)

\* A topology of the data model: at least two layers, every size positive.
ValidTopology(ls) == Len(ls) >= 2 /\ \A i \in 1..Len(ls) : ls[i] >= 1

\* The batches a caller may pass.
Batches == {GenMat(r, c, s) : r \in 1..MaxRows, c \in 0..MaxSize, s \in Seeds}

\* The (inputs, targets) pairs a caller may pass: any two shapes, one seed.
Datasets ==
    {<<GenMat(r, c, s), GenMat(tr, tc, s + 1)>> :
        r \in 1..MaxRows, c \in 0..MaxSize, tr \in 1..MaxRows, tc \in 0..MaxSize,
        s \in Seeds}

\* The target vectors a caller may pass to the logistic regressor.
TargetVectors == {GenVec(n, s) : n \in 1..MaxRows, s \in Seeds}

\* The parameter slices a caller of Optimizable::compute_grad may pass: the
\* right length, one short, one long.
ParamVectors(ls) ==
    {GenVec(n, 0) : n \in {FullSize(ls) - 1, FullSize(ls), FullSize(ls) + 1} \cap Nat}

\* A call's record, before its arguments and outcome are filled in.
Call(op) ==
    [op |-> op, err |-> "", idx |-> 0, params |-> <<>>, inputs |-> NoMatrix,
     targets |-> NoMatrix, vector |-> <<>>, before |-> <<>>, start |-> <<>>,
     computed |-> 0, out |-> NoMatrix, cg |-> GradPanic("none"), value |-> None]

\* NeuralNet::new(layer_sizes, MSECriterion), create_weights having ended as cw.
NewNeuralNetWith(ls, cw) ==
    /\ model = "NeuralNet"
    /\ built = (cw.err = "")
    /\ layer_sizes = ls
    /\ weights = cw.weights
    /\ parameters = None
    /\ trains = 0
    /\ last = [Call("new") EXCEPT !.err = cw.err]
    /\ pc = "ready"

\* NeuralNet::new(layer_sizes, MSECriterion)
NewNeuralNet(ls, seed, overflow_checks) ==
    NewNeuralNetWith(ls, CreateWeights(ls, seed, overflow_checks))

\* LogisticRegressor::default() / LogisticRegressor::new(gd)
NewLogisticRegressor ==
    /\ model = "LogisticRegressor"
    /\ built = TRUE
    /\ layer_sizes = <<>>
    /\ weights = <<>>
    /\ parameters = None
    /\ trains = 0
    /\ last = Call("new")
    /\ pc = "ready"

Init ==
    \/ \E ls \in Topologies, seed \in Seeds, overflow_checks \in BOOLEAN :
           NewNeuralNet(ls, seed, overflow_checks)
    \/ NewLogisticRegressor

\* ------------------------------------------------------------ the calls
\* A run is explored until a call leaves the model as it found it: predict,
\* get_net_weights, compute_grad and parameters() change nothing, nor does a
\* train that panics, so every state of a model is reached by its constructor
\* and the train calls that return.

\* SupModel::predict for NeuralNet, forward_prop having given out.
NNPredictReturn(inputs, out) ==
    /\ last' = [Call("predict") EXCEPT !.inputs = inputs, !.out = out, !.err = out.err]
    /\ pc' = "done"
    /\ UNCHANGED <<model, built, layer_sizes, weights, parameters, trains>>

\* SupModel::predict for NeuralNet
NNPredict(inputs) ==
    /\ model = "NeuralNet" /\ built /\ pc = "ready"
    /\ NNPredictReturn(inputs, ForwardProp(layer_sizes, weights, inputs))

\* SupModel::train for NeuralNet, optimize having ended as run.
NNTrainReturn(inputs, targets, start, run) ==
    /\ weights' = NNTrainStore(weights, run)
    /\ trains' = IF run.err = "" THEN trains + 1 ELSE trains
    /\ last' = [Call("train") EXCEPT !.inputs = inputs, !.targets = targets,
                                     !.before = weights, !.start = start,
                                     !.computed = run.computed, !.err = run.err]
    /\ pc' = IF run.err = "" THEN "ready" ELSE "done"
    /\ UNCHANGED <<model, built, layer_sizes, parameters>>

\* SupModel::train for NeuralNet, the optimizer started from start.
NNTrainFrom(inputs, targets, order, start) ==
    NNTrainReturn(inputs, targets, start,
                  SgdOptimize(layer_sizes, start, inputs, targets, order))

\* SupModel::train for NeuralNet
NNTrain(inputs, targets, order) ==
    /\ model = "NeuralNet" /\ built /\ pc = "ready"
    /\ NNTrainFrom(inputs, targets, order, NNTrainStart(weights))

\* NeuralNet::get_net_weights(idx), get_layer_weights having given out.
NNGetNetWeightsReturn(idx, out) ==
    /\ last' = [Call("get_net_weights") EXCEPT !.idx = idx, !.out = out,
                                               !.err = out.err]
    /\ pc' = "done"
    /\ UNCHANGED <<model, built, layer_sizes, weights, parameters, trains>>

\* NeuralNet::get_net_weights(idx)
NNGetNetWeights(idx) ==
    /\ model = "NeuralNet" /\ built /\ pc = "ready"
    /\ NNGetNetWeightsReturn(idx, GetLayerWeights(layer_sizes, weights, idx))

\* Optimizable::compute_grad for NeuralNet, compute_grad having given cg.
NNComputeGradReturn(params, inputs, targets, cg) ==
    /\ last' = [Call("compute_grad") EXCEPT !.params = params, !.inputs = inputs,
                                            !.targets = targets, !.cg = cg,
                                            !.err = cg.err]
    /\ pc' = "done"
    /\ UNCHANGED <<model, built, layer_sizes, weights, parameters, trains>>

\* Optimizable::compute_grad for NeuralNet
NNComputeGrad(params, inputs, targets) ==
    /\ model = "NeuralNet" /\ built /\ pc = "ready"
    /\ NNComputeGradReturn(params, inputs, targets,
                           ComputeGrad(layer_sizes, params, inputs, targets))

\* SupModel::train for LogisticRegressor, optimize having ended as run.
LRTrainReturn(inputs, targets, start, run) ==
    /\ parameters' = LRTrainStore(parameters, run)
    /\ trains' = IF run.err = "" THEN trains + 1 ELSE trains
    /\ last' = [Call("train") EXCEPT !.inputs = inputs, !.vector = targets,
                                     !.before = parameters.v,
                                     !.start = start, !.err = run.err]
    /\ pc' = IF run.err = "" THEN "ready" ELSE "done"
    /\ UNCHANGED <<model, built, layer_sizes, weights>>

\* SupModel::train for LogisticRegressor, on the inputs with their ones column.
LRTrainOn(inputs, targets, full_inputs, start) ==
    LRTrainReturn(inputs, targets, start, GdOptimize(start, full_inputs, targets))

\* SupModel::train for LogisticRegressor
LRTrain(inputs, targets) ==
    /\ model = "LogisticRegressor" /\ built /\ pc = "ready"
    /\ LRTrainOn(inputs, targets, PrependOnes(inputs),
                 LRTrainStart(parameters, PrependOnes(inputs)))

\* SupModel::predict for LogisticRegressor, having ended as res.
LRPredictReturn(inputs, res) ==
    /\ last' = [Call("predict") EXCEPT !.inputs = inputs, !.err = res.err,
                                       !.vector = res.value]
    /\ pc' = "done"
    /\ UNCHANGED <<model, built, layer_sizes, weights, parameters, trains>>

\* SupModel::predict for LogisticRegressor
LRPredict(inputs) ==
    /\ model = "LogisticRegressor" /\ built /\ pc = "ready"
    /\ LRPredictReturn(inputs, LRPredictOf(parameters, inputs))

\* LogisticRegressor::parameters()
LRParameters ==
    /\ model = "LogisticRegressor" /\ built /\ pc = "ready"
    /\ last' = [Call("parameters") EXCEPT !.value = LRParametersOf(parameters)]
    /\ pc' = "done"
    /\ UNCHANGED <<model, built, layer_sizes, weights, parameters, trains>>

\* The train calls on a network the exploration draws: at most MaxTrains that
\* return per network, each a run within the magnitude explored.
NNTrainDrawn(inputs, targets, order) ==
    /\ model = "NeuralNet" /\ built /\ pc = "ready"
    /\ trains < MaxTrains
    /\ SgdWithin(layer_sizes, NNTrainStart(weights), inputs, targets, order, 1)

Next ==
    \/ \E inputs \in Batches : NNPredict(inputs)
    \/ \E d \in Datasets :
           \E order \in Epochs(d[1].rows, Iters) :
               NNTrainDrawn(d[1], d[2], order) /\ NNTrain(d[1], d[2], order)
    \/ \E idx \in 0..MaxLayers : NNGetNetWeights(idx)
    \/ \E params \in ParamVectors(layer_sizes) \cup {weights} :
           \E d \in Datasets : NNComputeGrad(params, d[1], d[2])
    \/ \E inputs \in Batches, targets \in TargetVectors :
           trains < MaxTrains /\ LRTrain(inputs, targets)
    \/ \E inputs \in Batches : LRPredict(inputs)
    \/ LRParameters

Spec == Init /\ [][Next]_vars

\* ================================================================ claims
\* The reading of a topology [n0, ..., nk] in the data model, independent of
\* the code's loops: the sum over i in 0..k-1 of (n_i + 1) * n_{i+1}.
RECURSIVE ParamCount(_)
ParamCount(ls) ==
    IF Len(ls) < 2 THEN 0 ELSE (ls[1] + 1) * ls[2] + ParamCount(Tail(ls))

\* The offset of layer idx's slice: the sum over l < idx of (n_l + 1) * n_{l+1}.
SliceOffset(ls, idx) == ParamCount(SubSeq(ls, 1, idx + 1))

\* The number of weight layers k of a topology [n0, ..., nk].
K == Len(layer_sizes) - 1

\* Layer size n_i, i in 0..k.
N(i) == layer_sizes[i + 1]

IsNet == model = "NeuralNet" /\ built

ValidNet == IsNet /\ ValidTopology(layer_sizes)

\* ---------------------------------------------------------------- C1
\* C1: for a valid topology the flat parameter vector has exactly
\* sum (n_i + 1) * n_{i+1} entries, after construction and after every
\* sequence of train calls that returned.
C1_ParameterLength ==
    ValidNet => Len(weights) = ParamCount(layer_sizes)

\* A network with a hidden layer whose second train call returned and moved
\* the weights.
C1_Witness ==
    /\ ValidNet /\ K = 2
    /\ last.op = "train" /\ last.err = "" /\ trains = 2
    /\ weights # last.before
    /\ Len(weights) = ParamCount(layer_sizes)

\* ---------------------------------------------------------------- C2
\* The sum of squared errors of the network's output under parameters p, on
\* the inputs and targets of the last compute_grad call: 2 * rows * cost.
SquaredError(p) ==
    SumSeq(EleMul(MatSub(ForwardProp(layer_sizes, p, last.inputs), last.targets),
                  MatSub(ForwardProp(layer_sizes, p, last.inputs), last.targets)).data)

\* p with its entry at flat index i (0-based) moved by d.
Nudged(p, i, d) == [p EXCEPT ![i + 1] = @ + d]

\* 4 * rows * (the derivative of the cost with respect to the parameter at flat
\* index i): the cost is quadratic in any one parameter, so the central
\* difference (cost(p + e_i) - cost(p - e_i)) / 2 is the derivative.
Derivative4N(p, i) == SquaredError(Nudged(p, i, 1)) - SquaredError(Nudged(p, i, -1))

\* The flat index at which get_layer_weights reads entry (r, c) of layer l.
ReadIndex(l, r, c) == LayerReads(layer_sizes, l)[r * N(l + 1) + c + 1]

\* A compute_grad call that returned, on a valid network.
GradReturned == ValidNet /\ last.op = "compute_grad" /\ last.err = ""

\* C2: the gradient is laid out like the parameters: for every layer l and
\* entry (r, c) of its (n_l + 1) x n_{l+1} weight view, the flat gradient holds
\* the derivative with respect to that entry at the flat index at which
\* get_layer_weights reads the entry.
C2_GradientMirrorsParameters ==
    GradReturned =>
        \A l \in 0..(K - 1) : \A r \in 0..N(l) : \A c \in 0..(N(l + 1) - 1) :
            4 * last.cg.gradients[ReadIndex(l, r, c) + 1][1]
                = Derivative4N(last.params, ReadIndex(l, r, c))

\* ---------------------------------------------------------------- C3
\* C3: a freshly constructed network is untrained: predict on a network no
\* train call has returned on fails and returns no value.
C3_FreshPredictFails ==
    (IsNet /\ last.op = "predict" /\ trains = 0) => last.err # ""

\* ---------------------------------------------------------------- C4
IsRegressor == model = "LogisticRegressor" /\ built

UntrainedPanic == "Model has not been trained."

\* C4: the regressor's parameters are absent exactly while no train call has
\* returned; parameters() returns absent exactly then; predict then panics
\* and returns nothing; after a train call has returned predict no longer
\* meets that panic and returns one value per row (on inputs of the trained
\* column count).
C4_RegressorTrainedState ==
    IsRegressor =>
        /\ parameters.some = (trains > 0)
        /\ last.op = "parameters" =>
              /\ last.value.some = (trains > 0)
              /\ last.value = parameters
        /\ (last.op = "predict" /\ trains = 0) =>
              /\ last.err = UntrainedPanic
              /\ last.vector = <<>>
        /\ (last.op = "predict" /\ trains > 0) =>
              /\ last.err # UntrainedPanic
              /\ (last.inputs.cols + 1 = Len(parameters.v)) =>
                    /\ last.err = ""
                    /\ Len(last.vector) = last.inputs.rows

\* predict returned a value on a trained regressor.
C4_Witness ==
    /\ IsRegressor /\ trains > 0 /\ parameters.some
    /\ last.op = "predict" /\ last.err = "" /\ Len(last.vector) = 2

\* ---------------------------------------------------------------- C5
\* The shapes train's documentation rejects.
ShapeMismatch ==
    \/ last.inputs.cols # N(0)
    \/ last.targets.cols # N(K)
    \/ last.inputs.rows # last.targets.rows

\* C5: train on mismatched shapes fails, computes no gradient, and leaves the
\* stored parameters as they were.
C5_TrainRejectsMismatch ==
    (ValidNet /\ last.op = "train" /\ ShapeMismatch) =>
        /\ last.err # ""
        /\ last.computed = 0
        /\ weights = last.before

\* ---------------------------------------------------------------- C6
\* The parameters a model of the current shape could have held before a call.
HeldBefore ==
    IF model = "NeuralNet"
    THEN {GenVec(Len(last.before), s) : s \in Seeds} \cup {last.before}
    ELSE {None, Some(last.before), Some(Optimized(last.start, last.inputs, last.vector))}

\* The vector train would have started the optimizer from, had the model held
\* `held` before the call.
StartFrom(held) ==
    IF model = "NeuralNet" THEN NNTrainStart(held)
    ELSE LRTrainStart(held, PrependOnes(last.inputs))

\* C6 as stated: for both models the vector the optimizer is started from does
\* not depend on the parameters held before the train call.
C6_NoWarmStart ==
    (built /\ last.op = "train") => \A held \in HeldBefore : StartFrom(held) = last.start

\* C6 amended: the regressor starts every train from 0.5 in each of its
\* cols + 1 entries, whatever it held; the network starts from the weights it
\* holds, and a returned train stores what the optimizer reached from them.
C6_TrainStart ==
    (built /\ last.op = "train") =>
        IF model = "NeuralNet"
        THEN /\ last.start = last.before
             /\ \A held \in HeldBefore : StartFrom(held) = held
             /\ last.err = "" => trains > 0
        ELSE /\ last.start = [i \in 1..(last.inputs.cols + 1) |-> Half]
             /\ \A held \in HeldBefore : StartFrom(held) = last.start
             /\ last.err = "" =>
                   parameters = Some(Optimized(last.start, PrependOnes(last.inputs),
                                               last.vector))

\* A second train call returned on a network: it started from the weights the
\* first had stored, not from the initial ones, and moved them again.
C6_Witness ==
    /\ ValidNet /\ trains = 2
    /\ last.op = "train" /\ last.err = ""
    /\ last.start = last.before /\ weights # last.before
    /\ \A s \in Seeds : last.before # CreateWeights(layer_sizes, s, FALSE).weights

\* ---------------------------------------------------------------- C7
\* C7: on a valid network, forward propagation of an N x n0 input meets no
\* dimension panic and returns an N x nk matrix.
C7_PredictShape ==
    (ValidNet /\ last.op = "predict" /\ last.inputs.cols = N(0)) =>
        /\ last.err = ""
        /\ last.out.rows = last.inputs.rows
        /\ last.out.cols = N(K)
        /\ Len(last.out.data) = last.inputs.rows * N(K)

\* predict returned on a trained network with a hidden layer, for two rows.
C7_Witness ==
    /\ ValidNet /\ K = 2 /\ trains >= 1
    /\ last.op = "predict" /\ last.err = ""
    /\ last.out.rows = 2 /\ last.out.cols = N(2)

\* ---------------------------------------------------------------- C8
\* C8: a topology with fewer than two layers or with a zero size is rejected:
\* the constructor does not return a network, and train and predict do not
\* return either.
C8_MalformedTopologyAborts ==
    (model = "NeuralNet" /\ ~ValidTopology(layer_sizes)) =>
        /\ ~built
        /\ last.op \in {"train", "predict"} => last.err # ""

\* ---------------------------------------------------------------- C9
\* The view of layer idx of the flat vector p is the (n_idx + 1) x n_{idx+1}
\* row-major matrix of the contiguous slice at the layer's offset, and every
\* unchecked read is inside p.
LayerView(p, idx) ==
    /\ GetLayerWeights(layer_sizes, p, idx).err = ""
    /\ GetLayerWeights(layer_sizes, p, idx).rows = N(idx) + 1
    /\ GetLayerWeights(layer_sizes, p, idx).cols = N(idx + 1)
    /\ Len(LayerReads(layer_sizes, idx)) = (N(idx) + 1) * N(idx + 1)
    /\ \A k \in 1..Len(LayerReads(layer_sizes, idx)) :
          /\ LayerReads(layer_sizes, idx)[k] = SliceOffset(layer_sizes, idx) + k - 1
          /\ 0 <= LayerReads(layer_sizes, idx)[k]
          /\ LayerReads(layer_sizes, idx)[k] < Len(p)
    /\ \A r \in 0..N(idx) : \A c \in 0..(N(idx + 1) - 1) :
          At(GetLayerWeights(layer_sizes, p, idx), r, c)
              = p[SliceOffset(layer_sizes, idx) + r * N(idx + 1) + c + 1]

\* The layers whose slice holds flat index i.
LayersReading(i) ==
    {idx \in 0..(K - 1) :
        \E k \in 1..Len(LayerReads(layer_sizes, idx)) : LayerReads(layer_sizes, idx)[k] = i}

\* C9: for every idx in 0..k-1 get_layer_weights returns the view above, of
\* the stored weights and of any vector that passes its size assertion; a
\* vector of another length fails the assertion; the slices of the layers are
\* pairwise disjoint and together cover the whole vector.
C9_LayerWeightsView ==
    ValidNet =>
        /\ \A idx \in 0..(K - 1) : LayerView(weights, idx)
        /\ \A i \in 0..(Len(weights) - 1) : Cardinality(LayersReading(i)) = 1
        /\ \A p \in ParamVectors(layer_sizes) : \A idx \in 0..(K - 1) :
              IF Len(p) = ParamCount(layer_sizes) THEN LayerView(p, idx)
              ELSE GetLayerWeights(layer_sizes, p, idx).err
                       = "assertion failed: full_size == weights.len()"
        /\ last.op = "get_net_weights" =>
              IF last.idx < K
              THEN last.err = "" /\ last.out = GetLayerWeights(layer_sizes, weights, last.idx)
              ELSE last.err = "assertion failed: idx < self.layer_sizes.len() - 1"

\* get_net_weights(1) returned the second layer's 3 x n2 view of trained
\* weights.
C9_Witness ==
    /\ ValidNet /\ K = 2 /\ N(1) = 2 /\ trains >= 1
    /\ last.op = "get_net_weights" /\ last.idx = 1 /\ last.err = ""
    /\ last.out.rows = 3
    /\ last.out.data = SubSeq(weights, (N(0) + 1) * 2 + 1, Len(weights))

\* ---------------------------------------------------------------- C10
\* A compute_grad call on a valid network with a parameter vector of the right
\* length, N x n0 inputs and N x nk targets.
WellShapedGrad ==
    /\ ValidNet /\ last.op = "compute_grad"
    /\ Len(last.params) = ParamCount(layer_sizes)
    /\ last.inputs.cols = N(0) /\ last.targets.cols = N(K)
    /\ last.inputs.rows = last.targets.rows

\* The error of layer l, in 0..k-1: the code pushes the output layer's first.
DeltaOf(l) == last.cg.deltas[K - l]

\* The error of layer l - 1 before its bias column is stripped.
Unstripped(l) ==
    EleMul(MatMul(DeltaOf(l), Transpose(GetLayerWeights(layer_sizes, last.params, l))),
           GradActiv(last.cg.activations[l + 1]))

\* C10: backpropagation is shape-consistent: for every layer l the error is
\* N x n_{l+1}, obtained by stripping column 0 of the N x (n_l + 1)
\* back-propagated error, the cached activation is N x (n_l + 1) with a
\* leading column of ones, the two multiply to a block of
\* (n_l + 1) * n_{l+1} entries, and the flat gradient is as long as the
\* parameter vector.
C10_BackpropShapes ==
    WellShapedGrad =>
        /\ last.err = ""
        /\ Len(last.cg.deltas) = K
        /\ Len(last.cg.activations) = K + 1
        /\ Len(last.cg.grad) = K
        /\ \A l \in 0..(K - 1) :
              /\ DeltaOf(l).rows = last.inputs.rows
              /\ DeltaOf(l).cols = N(l + 1)
              /\ last.cg.activations[l + 1].rows = last.inputs.rows
              /\ last.cg.activations[l + 1].cols = N(l) + 1
              /\ \A r \in 0..(last.inputs.rows - 1) : At(last.cg.activations[l + 1], r, 0) = 1
              /\ Len(last.cg.grad[l + 1].data) = (N(l) + 1) * N(l + 1)
        /\ \A l \in 1..(K - 1) :
              /\ Unstripped(l).rows = last.inputs.rows
              /\ Unstripped(l).cols = N(l) + 1
              /\ \A r \in 0..(last.inputs.rows - 1) : \A c \in 0..(N(l) - 1) :
                    At(DeltaOf(l - 1), r, c) = At(Unstripped(l), r, c + 1)
        /\ Len(last.cg.gradients) = ParamCount(layer_sizes)
        /\ Len(last.cg.gradients) = Len(last.params)

\* compute_grad returned on a network with a two-unit hidden layer, for two
\* rows: the hidden layer's error came from a stripped three-column matrix.
C10_Witness ==
    /\ WellShapedGrad /\ last.err = ""
    /\ K = 2 /\ N(1) = 2 /\ last.inputs.rows = 2
    /\ Unstripped(1).cols = 3 /\ DeltaOf(0).cols = 2

====
